---------------------------- MODULE Spec2Model ----------------------------
(***************************************************************************)
(* A model of mof_matcher.find_matching_mofs (src/mof_matcher.py): the     *)
(* matching / aggregation engine of the MOF adsorption tool.               *)
(*                                                                         *)
(* Representation.                                                         *)
(*   - A cell or criterion value is a record [t, n, d, s]:                 *)
(*       t = "nan"  a missing value (NaN / None in a cell),                *)
(*       t = "none" the Python None given as a criterion value,            *)
(*       t = "num"  the number n / d (d >= 1, lowest terms; dataset and    *)
(*                  criterion numbers are integers, d = 1; only a mean     *)
(*                  produces d > 1),                                       *)
(*       t = "str"  the text s, a sequence of one-character strings.       *)
(*   - A column label is a TLA+ string. A criteria key is a sequence of    *)
(*     segments, a segment being one blank " " or the label's text.        *)
(*   - A DataFrame is [cols : sequence of labels, rows : sequence of       *)
(*     functions label -> value]; the index label of a row is its          *)
(*     position (the RangeIndex read_excel produces).                      *)
(*   - A Series is [index : sequence of labels, val : label -> value].     *)
(* The source pins no pandas version, and two of the calls it makes differ  *)
(* between the versions: astype(str) renders a missing value as the text   *)
(* "nan" before pandas 3.0 and keeps it missing from 3.0 on; idxmax of an  *)
(* all-missing column returns NaN before 3.0 (the lookup that follows      *)
(* raises KeyError) and raises ValueError from 3.0 on. The variable        *)
(* pandas3 is the version a run has, either one.                           *)
(* Arithmetic is exact; the criterion numbers of the bounded sets (0, 50,  *)
(* -50) are ones whose products with 0.98 and 1.02 are exact in binary     *)
(* floating point as well.                                                 *)
(***************************************************************************)
EXTENDS Integers, Sequences, FiniteSets, TLC

VARIABLES
    df,         \* the caller's dataset object
    inputs,     \* the criteria passed: a sequence of [k, v] in dict order
    pc,         \* "ready", then "returned" or "raised"
    result,     \* the table returned
    report,     \* the exception raised: its type and the names it lists
    df_work,    \* the working copy of line 79, as the call leaves it
    matched,    \* the index labels of the filtered subset of line 91
    df_before,  \* the dataset as it was when the call began
    pandas3     \* whether the pandas installed is 3.0 or later

vars == <<df, inputs, pc, result, report, df_work, matched, df_before, pandas3>>

---------------------------------------------------------------------------
(* Values *)

NaN == [t |-> "nan", n |-> 0, d |-> 1, s |-> <<>>]

PyNone == [t |-> "none", n |-> 0, d |-> 1, s |-> <<>>]

Num(i) == [t |-> "num", n |-> i, d |-> 1, s |-> <<>>]

Str(chars) == [t |-> "str", n |-> 0, d |-> 1, s |-> chars]

Abs(i) == IF i < 0 THEN -i ELSE i

RECURSIVE Gcd(_, _)
Gcd(a, b) == IF b = 0 THEN a ELSE Gcd(b, a % b)

\* The number p / q (q > 0) in lowest terms.
Rat(p, q) ==
    LET g == Gcd(Abs(p), q)
    IN  [t |-> "num", n |-> p \div g, d |-> q \div g, s |-> <<>>]

---------------------------------------------------------------------------
(* Text: str.strip, str.lower, str(number), pd.to_numeric *)

IsBlank(ch) == ch = " "

RECURSIVE LStrip(_)
LStrip(s) ==
    IF s = <<>> THEN <<>>
    ELSE IF IsBlank(Head(s)) THEN LStrip(Tail(s)) ELSE s

RECURSIVE RStrip(_)
RStrip(s) ==
    IF s = <<>> THEN <<>>
    ELSE IF IsBlank(s[Len(s)]) THEN RStrip(SubSeq(s, 1, Len(s) - 1)) ELSE s

\* str.strip(): the text without its leading and trailing blanks.
Strip(s) == RStrip(LStrip(s))

\* The upper-case letters the bounded sets use, with their lower-case forms.
LowerChar(ch) ==
    CASE ch = "A" -> "a"
      [] ch = "B" -> "b"
      [] ch = "N" -> "n"
      [] ch = "X" -> "x"
      [] OTHER -> ch

\* str.lower()
Lower(s) == [i \in 1..Len(s) |-> LowerChar(s[i])]

DigitChars == <<"0", "1", "2", "3", "4", "5", "6", "7", "8", "9">>

RECURSIVE NatToChars(_)
NatToChars(i) ==
    IF i < 10 THEN <<DigitChars[i + 1]>>
    ELSE NatToChars(i \div 10) \o <<DigitChars[(i % 10) + 1]>>

\* str(i) of a Python integer.
IntToChars(i) == IF i < 0 THEN <<"-">> \o NatToChars(-i) ELSE NatToChars(i)

IsDigit(ch) == \E i \in 1..10 : DigitChars[i] = ch

DigitVal(ch) == (CHOOSE i \in 1..10 : DigitChars[i] = ch) - 1

RECURSIVE CharsToNat(_)
CharsToNat(s) ==
    IF s = <<>> THEN 0
    ELSE 10 * CharsToNat(SubSeq(s, 1, Len(s) - 1)) + DigitVal(s[Len(s)])

AllDigits(s) == s # <<>> /\ \A i \in 1..Len(s) : IsDigit(s[i])

\* str(v) of one cell: a number is rendered in decimal, a missing value
\* as "nan".
AsTypeStr(v) ==
    CASE v.t = "str" -> v.s
      [] v.t = "num" -> IntToChars(v.n)
      [] OTHER -> <<"n", "a", "n">>

\* pd.to_numeric(errors="coerce") on one cell: a number stays, a decimal
\* numeral (blanks around it ignored) is parsed, anything else is NaN.
ToNumeric(v) ==
    CASE v.t = "num" -> v
      [] v.t = "str" ->
            LET s == Strip(v.s)
            IN  IF AllDigits(s) THEN Num(CharsToNat(s))
                ELSE IF s # <<>> /\ Head(s) = "-" /\ AllDigits(Tail(s))
                     THEN Num(-CharsToNat(Tail(s)))
                     ELSE NaN
      [] OTHER -> NaN

---------------------------------------------------------------------------
(* Column lists. The labels are written in ASCII: "(C)" stands for the    *)
(* degree sign and C, "m2", "cm3" and "A" for the superscripts and the      *)
(* angstrom sign of the source.                                             *)

OUTPUT_COLS ==
    << "MOF", "KH (mmol/bar.g)", "W 0.1 (mmol/g)", "W 0.2 (mmol/g)",
       "W 0.3 (mmol/g)", "W 0.4 (mmol/g)", "W 0.5 (mmol/g)", "W 0.6 (mmol/g)",
       "W 0.7 (mmol/g)", "W 0.8 (mmol/g)", "W 0.9 (mmol/g)",
       "N2", "CO2", "CH4", "Gas Temperature (C)", "Gas Pressure (bar)",
       "Gas uptake (mmol/g)", "Void Fraction", "MSA (m2/g)", "VSA (m2/cm3)",
       "PLD (A)", "LCD (A)" >>

keep_cols ==
    << "N2", "CO2", "CH4", "Gas Temperature (C)", "Gas Pressure (bar)",
       "Gas uptake (mmol/g)" >>

Range(seq) == {seq[i] : i \in 1..Len(seq)}

---------------------------------------------------------------------------
(* Normalising the criteria: find_matching_mofs, lines 56-69 *)

\* k.strip() of a criteria key, as a column label.
KeyLabel(k) == LET s == Strip(k) IN IF s = <<>> THEN "" ELSE s[1]

\* provided[k] = v on a dict kept as a sequence of [k, v] in insertion order.
DictSet(dict, k, v) ==
    IF \E i \in 1..Len(dict) : dict[i].k = k
    THEN [i \in 1..Len(dict) |->
             IF dict[i].k = k THEN [k |-> k, v |-> v] ELSE dict[i]]
    ELSE Append(dict, [k |-> k, v |-> v])

\* Whether the loop of lines 58-66 skips the value: None, or a blank string.
Skipped(v) == v.t = "none" \/ (v.t = "str" /\ Strip(v.s) = <<>>)

RECURSIVE Provided(_)
Provided(inp) ==
    IF inp = <<>> THEN <<>>
    ELSE LET n    == Len(inp)
             rest == Provided(SubSeq(inp, 1, n - 1))
         IN  IF Skipped(inp[n].v) THEN rest
             ELSE DictSet(rest, KeyLabel(inp[n].k), inp[n].v)

\* Line 72: the criteria columns the dataset does not have, in dict order.
missing_cols(d, provided) ==
    LET Absent(e) == e.k \notin Range(d.cols)
        miss == SelectSeq(provided, Absent)
    IN  [i \in 1..Len(miss) |-> miss[i].k]

---------------------------------------------------------------------------
(* Filtering: find_matching_mofs, lines 76-91 *)

\* df_work = df : the working name bound to the caller's object.
WorkRefAliased == "df"

\* The object the name df_work refers to after line 79: df.copy() makes a
\* new object, apart from the caller's "df".
WorkRef == "df_work"

\* df.empty: no records or no columns.
Empty(d) == Len(d.rows) = 0 \/ Len(d.cols) = 0

\* tbl[col] = cells : a column assignment, which writes every row.
SetColumn(tbl, col, cells) ==
    [tbl EXCEPT !.rows =
        [i \in 1..Len(tbl.rows) |-> [tbl.rows[i] EXCEPT ![col] = cells[i]]]]

\* The tolerance band of lines 87-88, in hundredths.
LowerPct == 98

UpperPct == 102

\* Series.between(..., inclusive="neither")
BetweenExclusive(x, val) ==
    /\ x.t = "num"
    /\ LowerPct * val.n * x.d < 100 * x.n
    /\ 100 * x.n < UpperPct * val.n * x.d

\* Series.between(val * 0.98, val * 1.02) on one coerced cell, both ends
\* inclusive; NaN compares false.
Between(x, val) ==
    /\ x.t = "num"
    /\ LowerPct * val.n * x.d <= 100 * x.n
    /\ 100 * x.n <= UpperPct * val.n * x.d

\* Line 84 on one normalised cell.
TextEq(cell, val) == cell.t = "str" /\ cell.s = Lower(Strip(val.s))

\* Line 83 on one cell: astype(str), strip, lower. From pandas 3.0 on
\* astype(str) keeps a missing value missing, and so do strip and lower.
NormText(v, p3) ==
    IF v.t = "nan" /\ p3 THEN NaN ELSE Str(Lower(Strip(AsTypeStr(v))))

\* One pass of the loop of lines 81-89 for the criterion e, on the objects
\* in heap and the mask.
ApplyCriterion(st, e, p3) ==
    LET old == st.heap[WorkRef]
        new == SetColumn(old, e.k,
                         [i \in 1..Len(old.rows) |->
                             IF e.v.t = "str"
                             THEN NormText(old.rows[i][e.k], p3)
                             ELSE ToNumeric(old.rows[i][e.k])])
        heap2 == [st.heap EXCEPT ![WorkRef] = new]
        work == heap2[WorkRef]
    IN  [heap |-> heap2,
         mask |-> [i \in 1..Len(work.rows) |->
                     /\ st.mask[i]
                     /\ IF e.v.t = "str" THEN TextEq(work.rows[i][e.k], e.v)
                        ELSE Between(work.rows[i][e.k], e.v)]]

RECURSIVE ApplyAll(_, _, _)
ApplyAll(st, provided, p3) ==
    IF provided = <<>> THEN st
    ELSE ApplyAll(ApplyCriterion(st, Head(provided), p3), Tail(provided), p3)

\* Lines 76-89: the mask is all True, the working copy is made, the loop
\* runs.
Filtered(d, provided, p3) ==
    ApplyAll([heap |-> [df |-> d, df_work |-> d],
              mask |-> [i \in 1..Len(d.rows) |-> TRUE]], provided, p3)

\* Line 91: the index labels (positions) of the records the mask keeps, in
\* dataset order.
MatchedIdx(st) ==
    LET Kept(i) == st.mask[i]
    IN  SelectSeq([i \in 1..Len(st.mask) |-> i], Kept)

---------------------------------------------------------------------------
(* Grouping and aggregation: find_matching_mofs, lines 96-141 *)

\* The characters of the bounded sets, in code-point order.
Alphabet ==
    << " ", "-", "/", "0", "1", "2", "3", "4", "5", "6", "7", "8", "9",
       "A", "B", "N", "X", "a", "b", "n", "x" >>

CharCode(ch) == CHOOSE i \in 1..Len(Alphabet) : Alphabet[i] = ch

RECURSIVE TextLess(_, _)
TextLess(a, b) ==
    IF b = <<>> THEN FALSE
    ELSE IF a = <<>> THEN TRUE
    ELSE IF Head(a) = Head(b) THEN TextLess(Tail(a), Tail(b))
    ELSE CharCode(Head(a)) < CharCode(Head(b))

\* The order of group keys. The keys of one call are all texts or all
\* numbers: the MOF cells of the bounded sets are texts or missing, and a
\* numeric criterion on MOF coerces the whole column.
KeyLess(u, v) ==
    IF u.t = "num" /\ v.t = "num" THEN u.n * v.d < v.n * u.d
    ELSE TextLess(AsTypeStr(u), AsTypeStr(v))

RECURSIVE SortedKeys(_)
SortedKeys(S) ==
    IF S = {} THEN <<>>
    ELSE LET m == CHOOSE x \in S : \A y \in S \ {x} : KeyLess(x, y)
         IN  <<m>> \o SortedKeys(S \ {m})

\* groupby("MOF") of line 98: the group keys in ascending order; a record
\* whose MOF is missing is in no group (dropna).
GroupKeys(work, kept) ==
    SortedKeys({work.rows[kept[j]]["MOF"] : j \in 1..Len(kept)}
               \ {NaN})

\* The index labels of one group, in filtered order.
GroupIdx(work, kept, key) ==
    LET InGroup(i) == work.rows[i]["MOF"] = key
    IN  SelectSeq(kept, InGroup)

\* Lines 99-103: the group's own copy of a record, its gas uptake coerced.
GroupRow(work, i) ==
    IF "Gas uptake (mmol/g)" \in Range(work.cols)
    THEN [work.rows[i] EXCEPT !["Gas uptake (mmol/g)"] = ToNumeric(@)]
    ELSE work.rows[i]

NumLess(u, v) == u.n * v.d < v.n * u.d

\* Series.idxmax() of line 107: the label of the first record holding the
\* greatest non-missing gas uptake; 0 when every gas uptake is missing.
IdxMax(work, idx) ==
    LET U(i) == GroupRow(work, i)["Gas uptake (mmol/g)"]
        Has(i) == U(i).t = "num"
        Top(j) == /\ Has(idx[j])
                  /\ \A k \in 1..Len(idx) :
                        Has(idx[k]) => ~NumLess(U(idx[j]), U(idx[k]))
    IN  IF \E j \in 1..Len(idx) : Top(j)
        THEN idx[CHOOSE j \in 1..Len(idx) :
                    Top(j) /\ \A k \in 1..(j - 1) : ~Top(k)]
        ELSE 0

\* The dtype of a column is numeric when no cell of it holds a text (the
\* inference read_excel, astype and to_numeric leave behind).
NumericDtype(work, c) == \A i \in 1..Len(work.rows) : work.rows[i][c].t # "str"

RECURSIVE SumN(_)
SumN(vals) == IF vals = <<>> THEN 0 ELSE Head(vals).n + SumN(Tail(vals))

\* Series.mean() with skipna: the mean of the cells that hold a number, NaN
\* when none does.
Mean(vals) ==
    LET IsNum(v) == v.t = "num"
        nums == SelectSeq(vals, IsNum)
    IN  IF nums = <<>> THEN NaN ELSE Rat(SumN(nums), Len(nums))

\* Line 117
avg_cols ==
    LET Avg(c) == c \notin Range(keep_cols) \cup {"MOF"}
    IN  SelectSeq(OUTPUT_COLS, Avg)

\* series[c] = v : an existing label is overwritten, a new one is appended.
SeriesSet(ser, c, v) ==
    IF c \in Range(ser.index)
    THEN [ser EXCEPT !.val[c] = v]
    ELSE [index |-> Append(ser.index, c),
          val |-> [x \in Range(ser.index) \cup {c} |->
                      IF x = c THEN v ELSE ser.val[x]]]

RECURSIVE SeriesSetAll(_, _, _)
SeriesSetAll(ser, cols, src) ==
    IF cols = <<>> THEN ser
    ELSE SeriesSetAll(SeriesSet(ser, Head(cols), src[Head(cols)]),
                      Tail(cols), src)

\* Series.reindex(cols)
Reindex(ser, cols) ==
    [index |-> cols,
     val |-> [c \in Range(cols) |->
                 IF c \in Range(ser.index) THEN ser.val[c] ELSE NaN]]

\* Lines 106-132: the row of a group of more than one record.
MultiRow(work, idx, mof_name) ==
    LET idx_max == IdxMax(work, idx)
        top_row == GroupRow(work, idx_max)
        IsHere(c) == c \in Range(work.cols)
        avg_cols_existing == SelectSeq(avg_cols, IsHere)
        IsNumeric(c) == NumericDtype(work, c)
        numeric == SelectSeq(avg_cols_existing, IsNumeric)
        avg0 == [index |-> numeric,
                 val |-> [c \in Range(numeric) |->
                            Mean([j \in 1..Len(idx) |->
                                     GroupRow(work, idx[j])[c]])]]
        avg1 == SeriesSet(avg0, "MOF", mof_name)
        avg2 == SeriesSetAll(avg1, keep_cols, top_row)
    IN  Reindex(avg2, OUTPUT_COLS)

\* Lines 135-138: the row of a group of one record.
SingleRow(work, i) ==
    LET row == GroupRow(work, i)
    IN  [index |-> OUTPUT_COLS,
         val |-> [c \in Range(OUTPUT_COLS) |->
                    IF c \in Range(work.cols) THEN row[c] ELSE NaN]]

\* The columns of keep_cols the dataset does not have.
MissingKeep(work) ==
    LET Absent(c) == c \notin Range(work.cols) IN SelectSeq(keep_cols, Absent)

\* Whether the body of the loop of lines 98-138 raises on a group: a group
\* of more than one record needs every column of keep_cols (lines 107 and
\* 114 index them) and one record at least whose gas uptake is a number
\* (line 107 raises, or line 114 looks up the NaN that idxmax found).
GroupRaises(work, idx) ==
    /\ Len(idx) > 1
    /\ \/ MissingKeep(work) # <<>>
       \/ IdxMax(work, idx) = 0

\* The exception of the first group that raises: KeyError with the
\* missing labels for a missing column; for an all-missing gas uptake
\* ValueError from line 107 (pandas 3.0 on) or KeyError from line 114.
GroupError(work, p3) ==
    IF MissingKeep(work) # <<>> THEN [exc |-> "KeyError", names |-> MissingKeep(work)]
    ELSE [exc |-> IF p3 THEN "ValueError" ELSE "KeyError", names |-> <<>>]

\* pd.DataFrame(rows, columns=cols): the columns are cols; a row gives its
\* value under each label, a missing value where it has none.
DataFrame(rows, cols) ==
    [cols |-> cols,
     rows |-> [j \in 1..Len(rows) |->
                 [c \in Range(cols) |->
                    IF c \in Range(rows[j].index) THEN rows[j].val[c]
                    ELSE NaN]]]

\* pd.DataFrame() : an empty table with no columns.
EmptyResultNoCols == DataFrame(<<>>, <<>>)

\* Lines 54, 69 and 94: pd.DataFrame(columns=OUTPUT_COLS)
EmptyResult == DataFrame(<<>>, OUTPUT_COLS)

NoTable == [cols |-> <<>>, rows |-> <<>>]

NoReport == [exc |-> "", names |-> <<>>]

Return(table, heap, kept) ==
    [kind |-> "returned", table |-> table, report |-> NoReport,
     heap |-> heap, matched |-> kept]

Raise(exc, names, heap, kept) ==
    [kind |-> "raised", table |-> NoTable,
     report |-> [exc |-> exc, names |-> names],
     heap |-> heap, matched |-> kept]

\* Lines 96-141, on the working copy and the index labels the mask kept.
Aggregate(work, kept, heap, p3) ==
    IF "MOF" \notin Range(work.cols)
    THEN Raise("KeyError", <<"MOF">>, heap, kept)
    ELSE
    LET keys == GroupKeys(work, kept)
        Idx(g) == GroupIdx(work, kept, keys[g])
    IN  IF \E g \in 1..Len(keys) : GroupRaises(work, Idx(g))
        THEN Raise(GroupError(work, p3).exc, GroupError(work, p3).names,
                   heap, kept)
        ELSE Return(DataFrame([g \in 1..Len(keys) |->
                                 IF Len(Idx(g)) > 1
                                 THEN MultiRow(work, Idx(g), keys[g])
                                 ELSE SingleRow(work, Idx(g)[1])],
                              OUTPUT_COLS),
                    heap, kept)

\* find_matching_mofs(df, inputs), lines 53-141: what it returns or raises,
\* and the objects it leaves: heap.df is the caller's dataset, heap.df_work
\* the working copy (NoTable when the call ends before line 79).
find_matching_mofs(d, inp, p3) ==
    LET heap0 == [df |-> d, df_work |-> NoTable]
        provided == Provided(inp)
        missing == missing_cols(d, provided)
    IN  IF Empty(d) THEN Return(EmptyResult, heap0, <<>>)
        ELSE IF provided = <<>> THEN Return(EmptyResult, heap0, <<>>)
        ELSE IF missing # <<>> THEN Raise("KeyError", missing, heap0, <<>>)
        ELSE LET st == Filtered(d, provided, p3)
                 kept == MatchedIdx(st)
             IN  IF kept = <<>> THEN Return(EmptyResult, st.heap, <<>>)
                 ELSE Aggregate(st.heap[WorkRef], kept, st.heap, p3)

---------------------------------------------------------------------------
(* Bounded inputs *)

MaxRecords == 3

DATASET_COLS ==
    << "MOF", "N2", "CO2", "CH4", "Gas Temperature (C)",
       "Gas Pressure (bar)", "Gas uptake (mmol/g)", "Void Fraction" >>

\* The same schema without the CH4 column.
DATASET_COLS_NO_CH4 ==
    LET NotCH4(c) == c # "CH4" IN SelectSeq(DATASET_COLS, NotCH4)

\* The record at position i of a dataset with the columns cols: its MOF,
\* gas uptake and void fraction come from the seed; CO2 numbers the records
\* so that an output value tells which record it was taken from.
MkRow(cols, i, seed) ==
    [c \in Range(cols) |->
        CASE c = "MOF" -> seed.mof
          [] c = "Gas uptake (mmol/g)" -> seed.up
          [] c = "Void Fraction" -> seed.vf
          [] c = "N2" -> seed.n2
          [] c = "CO2" -> Num(i)
          [] c = "Gas Temperature (C)" -> Num(25)
          [] OTHER -> Num(1)]

MkTable(cols, seeds) ==
    [cols |-> cols, rows |-> [i \in 1..Len(seeds) |-> MkRow(cols, i, seeds[i])]]

Datasets(Schemas, Seeds) ==
    {MkTable(cols, seeds) :
        cols \in Schemas,
        seeds \in UNION {[1..n -> Seeds] : n \in 0..MaxRecords}}

Key(label) == <<label>>

Crit(k, v) == [k |-> k, v |-> v]

A_ == Str(<<"A">>)

a_pad == Str(<<" ", "a">>)

\* Records whose MOF differs in case and blanks or is missing, whose gas
\* uptake is a number, a numeral held as text or missing, whose void
\* fraction is a number or a text that is no number, and whose N2 is a
\* number or a text.
SeedsGeneral ==
    [mof : {A_, a_pad, NaN},
     n2 : {Num(1)},
     up : {Num(49), Str(<<"5", "1">>)},
     vf : {Num(10)}]
    \cup
    { [mof |-> A_, n2 |-> Str(<<"X">>), up |-> Num(49),
       vf |-> Str(<<"n", "/", "a">>)],
      [mof |-> A_, n2 |-> Num(1), up |-> NaN, vf |-> Num(20)] }

CriteriaGeneral ==
    { <<>>,
      <<Crit(Key("MOF"), PyNone)>>,
      <<Crit(Key("MOF"), Str(<<" ", " ">>)), Crit(Key("Foo"), Str(<<>>))>>,
      <<Crit(Key("MOF"), Str(<<"A", " ">>))>>,
      <<Crit(<<" ", "MOF">>, Str(<<"a">>)), Crit(Key("MOF"), Str(<<"n", "a", "n">>))>>,
      <<Crit(Key("MOF"), Str(<<"n", "a", "n">>))>>,
      <<Crit(Key("Gas uptake (mmol/g)"), Num(50))>>,
      <<Crit(Key("Void Fraction"), Num(10))>>,
      <<Crit(Key("MOF"), Str(<<"a">>)), Crit(Key("Gas uptake (mmol/g)"), Num(50))>>,
      <<Crit(Key("N2"), Str(<<"x">>))>>,
      <<Crit(Key("Foo"), Num(1))>>,
      <<Crit(Key("Foo"), Num(1)), Crit(Key("MOF"), Str(<<"a">>)),
        Crit(<<"Bar", " ">>, Str(<<"x">>))>> }

---------------------------------------------------------------------------
(* The state machine: one call of find_matching_mofs on the caller's       *)
(* dataset df with the criteria inputs.                                    *)

InitWith(DS, CS) ==
    /\ df \in DS
    /\ inputs \in CS
    /\ pc = "ready"
    /\ result = NoTable
    /\ report = NoReport
    /\ df_work = NoTable
    /\ matched = <<>>
    /\ df_before = df
    /\ pandas3 \in BOOLEAN

\* Criteria for the datasets that lack the CH4 column.
CriteriaNoCH4 ==
    { <<>>,
      <<Crit(Key("MOF"), Str(<<"A", " ">>))>>,
      <<Crit(Key("Gas uptake (mmol/g)"), Num(50))>>,
      <<Crit(Key("CH4"), Num(1)), Crit(Key("Foo"), Num(1))>> }

Init ==
    \/ InitWith(Datasets({DATASET_COLS}, SeedsGeneral), CriteriaGeneral)
    \/ InitWith(Datasets({DATASET_COLS_NO_CH4}, SeedsGeneral), CriteriaNoCH4)

FindMatchingMofs ==
    /\ pc = "ready"
    /\ \E out \in {find_matching_mofs(df, inputs, pandas3)} :
           /\ pc' = out.kind
           /\ result' = out.table
           /\ report' = out.report
           /\ df' = out.heap.df
           /\ df_work' = out.heap.df_work
           /\ matched' = out.matched
    /\ df_before' = df
    /\ UNCHANGED <<inputs, pandas3>>

Next == FindMatchingMofs

Spec == Init /\ [][Next]_vars

\* Datasets for the tolerance band: a void fraction on, inside and outside
\* the band of 50, negative, zero, held as text, or missing.
SeedsBand ==
    [mof : {A_},
     n2 : {Num(1)},
     up : {Num(1)},
     vf : {Num(0), Num(48), Num(49), Num(51), Num(52), Num(-50),
           Str(<<"5", "0">>), NaN}]
    \cup
    [mof : {A_},
     n2 : {Num(1)},
     up : {Num(2)},
     vf : {Num(49), Num(51)}]
    \cup
    [mof : {Str(<<"B">>)},
     n2 : {Num(1)},
     up : {Num(1)},
     vf : {Num(51), Num(52)}]

CriteriaBand ==
    { <<Crit(Key("Void Fraction"), Num(50))>>,
      <<Crit(Key("Void Fraction"), Num(-50))>>,
      <<Crit(Key("Void Fraction"), Num(0))>>,
      <<Crit(Key("Void Fraction"), Num(50)),
        Crit(Key("Gas uptake (mmol/g)"), Num(2))>> }

InitBand == InitWith(Datasets({DATASET_COLS}, SeedsBand), CriteriaBand)

SpecBand == InitBand /\ [][Next]_vars

---------------------------------------------------------------------------
(* Properties *)

Called == pc # "ready"

\* A criteria value that is absent, empty or blank.
IsBlankValue(v) ==
    v.t = "none" \/ (v.t = "str" /\ \A j \in 1..Len(v.s) : v.s[j] = " ")

AllBlank == \A i \in 1..Len(inputs) : IsBlankValue(inputs[i].v)

\* The normalised criteria keys that name no column of the dataset.
UnknownNames ==
    {KeyLabel(inputs[i].k) :
        i \in {j \in 1..Len(inputs) : ~IsBlankValue(inputs[j].v)}}
    \ Range(df_before.cols)

\* The normalised criteria, when every one names a column.
Criteria == IF UnknownNames = {} THEN Range(Provided(inputs)) ELSE {}

Records == 1..Len(df_before.rows)

Cell(i, c) == df_before.rows[i][c]

\* x lies in [0.98 v, 1.02 v], for a value that coerces to a number.
InBand(cell, v) ==
    LET x == ToNumeric(cell)
    IN  x.t = "num" /\ 98 * v.n <= 100 * x.n /\ 100 * x.n <= 102 * v.n

\* The cell, trimmed and case-folded, equals v trimmed and case-folded; a
\* missing cell equals nothing.
SameText(cell, v) ==
    cell.t # "nan" /\ Lower(Strip(AsTypeStr(cell))) = Lower(Strip(v.s))

OutRows == IF pc = "returned" THEN 1..Len(result.rows) ELSE {}

\* The record i satisfies every criterion, as C4 and C5 state it.
Matching(i) ==
    \A e \in Criteria :
        IF e.v.t = "str" THEN SameText(Cell(i, e.k), e.v)
        ELSE InBand(Cell(i, e.k), e.v)

\* The records of the output row g: those of the filtered subset that are
\* grouped under its MOF.
GroupOf(g) ==
    {i \in Range(matched) : df_work.rows[i]["MOF"] = result.rows[g]["MOF"]}

\* The output rows whose group has n records, or more than n with more,
\* all of them matching records.
RowsOfSize(n, more) ==
    {g \in OutRows :
        /\ \A i \in GroupOf(g) : Matching(i)
        /\ IF more THEN Cardinality(GroupOf(g)) > n
           ELSE Cardinality(GroupOf(g)) = n}

\* (C1) A call whose criteria are all blank, empty or absent raises; it
\* returns no table.
C1_BlankCriteriaRaise == (Called /\ AllBlank) => pc = "raised"

\* (C2) A call whose normalised criteria name columns the dataset does not
\* have raises one KeyError that lists every such name, whatever the
\* dataset, a dataset of no records included.
C2_UnknownColumnsRaise ==
    (Called /\ UnknownNames # {}) =>
        /\ pc = "raised"
        /\ report.exc = "KeyError"
        /\ UnknownNames \subseteq Range(report.names)

\* (C3) The table returned has as many rows as there are distinct MOF
\* values, as the caller's dataset holds them, among the records of the
\* filtered subset.
C3_RowPerIdentity ==
    (pc = "returned" /\ Criteria # {}) =>
        Len(result.rows) = Cardinality({Cell(i, "MOF") : i \in Range(matched)})

C5_TextMatch ==
    (Called /\ Criteria # {} /\ \A e \in Criteria : e.v.t = "str"
            /\ ~Empty(df_before)) =>
        Range(matched) =
            {i \in Records : \A e \in Criteria : SameText(Cell(i, e.k), e.v)}

\* (C6) Every table returned has the columns of OUTPUT_COLS in their
\* order, each row a value under each of them, and a missing value under
\* each output column the dataset does not have.
C6_OutputSchema ==
    pc = "returned" =>
        /\ result.cols = OUTPUT_COLS
        /\ \A g \in OutRows :
              /\ DOMAIN result.rows[g] = Range(OUTPUT_COLS)
              /\ \A c \in Range(OUTPUT_COLS) \ Range(df_before.cols) :
                    result.rows[g][c] = NaN

\* A table of two rows is returned, one from a group of two records and
\* one from a group of one.
C6_Witness ==
    /\ pc = "returned"
    /\ Len(result.rows) = 2
    /\ \E g, h \in OutRows :
          Cardinality(GroupOf(g)) = 2 /\ Cardinality(GroupOf(h)) = 1

IsRepresentative(r, G) ==
    LET U(i) == ToNumeric(Cell(i, "Gas uptake (mmol/g)"))
    IN  /\ r \in G
        /\ U(r).t = "num"
        /\ \A i \in G : U(i).t = "num" => U(i).n <= U(r).n
        /\ \A i \in G : (i < r /\ U(i).t = "num") => U(i).n < U(r).n

\* (C8) The six operating-condition columns of the row of a group of more
\* than one record hold the values the caller's dataset holds in the
\* group's representative.
C8_OperatingConditions ==
    \A g \in RowsOfSize(1, TRUE) :
        \E r \in GroupOf(g) :
            /\ IsRepresentative(r, GroupOf(g))
            /\ \A c \in Range(keep_cols) : result.rows[g][c] = Cell(r, c)

RECURSIVE SumOver(_, _)
SumOver(S, c) ==
    IF S = {} THEN 0
    ELSE LET i == CHOOSE x \in S : TRUE
         IN  Cell(i, c).n + SumOver(S \ {i}, c)

\* The mean of the numbers the records of G hold in column c, a missing
\* value when they hold none or the dataset has no such column.
MeanOf(G, c) ==
    IF c \notin Range(df_before.cols) THEN NaN
    ELSE LET N == {i \in G : Cell(i, c).t = "num"}
         IN  IF N = {} THEN NaN ELSE Rat(SumOver(N, c), Cardinality(N))

\* (C9) Every other column, MOF apart, of the row of a group of more than
\* one record holds the mean of the numbers the group's records hold in
\* that column, texts and missing values left out.
C9_MeanOfNumeric ==
    \A g \in RowsOfSize(1, TRUE) :
        \A c \in Range(OUTPUT_COLS) \ (Range(keep_cols) \cup {"MOF"}) :
            result.rows[g][c] = MeanOf(GroupOf(g), c)

\* (C10) The row of a group of one record holds, under each output column
\* the dataset has, the value the caller's dataset holds in that record,
\* and a missing value under the others.
C10_SingleRecordAsIs ==
    \A g \in RowsOfSize(1, FALSE) :
        \A i \in GroupOf(g) :
            \A c \in Range(OUTPUT_COLS) :
                result.rows[g][c] =
                    IF c \in Range(df_before.cols) THEN Cell(i, c) ELSE NaN

===========================================================================
